---------------------------- MODULE Spec2Model ----------------------------
(***************************************************************************)
(* A model of the tensegrity simulation engine (research/simulation).      *)
(*                                                                         *)
(* Numbers.  The engine computes with Python floats; the model computes    *)
(* the same expressions exactly, in fixed point:                           *)
(*   health, complexity, demand, magnitudes, rates   unit 1/100            *)
(*   weights alpha, beta, gamma, lambda1, lambda2,                         *)
(*     actor weights, feature_bias                   unit 1/10             *)
(*   risk                                            unit 1/10^4           *)
(*   bad, bad_prev, grad_V                           unit 1/10^5           *)
(*   flow x                                          unit 1/10^3           *)
(*   flow y                                          unit 1/10^6           *)
(*   energies T, V_struct, V_bus, V, H, L, E_local   unit 1/(2*10^10)      *)
(*   random draws                                    unit 1/100            *)
(*   probabilities                                   unit 1/10^6           *)
(* Edge weights are integers.  An energy does not fit a 32-bit integer of  *)
(* TLC, so it is a pair <<hi, lo>> standing for hi*Base + lo with          *)
(* 0 <= lo < Base.                                                         *)
(***************************************************************************)
EXTENDS Integers, Sequences, FiniteSets, TLC

VARIABLES
    rng,      \* the process-wide numpy generator: [seed, pos]
    sims,     \* per Simulator: [pc, step, ai, runs, asked, config]
    state,    \* per Simulator: its SimulationState
    hist,     \* per Simulator: its SimulationHistory
    actors,   \* per Simulator: its list of actors
    tg,       \* a TensegrityGraph driven through its own interface
    tgOps,    \* number of edge mutations applied to tg
    es,       \* a SimulationState driven through its own interface
    esOps,    \* number of events applied to es
    bd,       \* the task tracker behind the bd command: status and assignee per task
    calls     \* per agent: its claim_task call, and what its calls returned

vars == <<rng, sims, state, hist, actors, tg, tgOps, es, esOps, bd, calls>>

simVars == <<rng, sims, state, hist, actors>>
graphVars == <<tg, tgOps>>
eventVars == <<es, esOps>>
beadsVars == <<bd, calls>>

----------------------------------------------------------------------------
(* Bounds of the model *)

MaxSteps == 2
MaxGraphOps == 3
MaxEventOps == 2
MaxRuns == 2
MaxClaims == 2

----------------------------------------------------------------------------
(* Exact arithmetic on pairs <<hi, lo>> = hi*Base + lo *)

Base == 100 * 100

W(x) == <<x \div Base, x % Base>>

WZero == <<0, 0>>

WAdd(a, b) == <<a[1] + b[1] + ((a[2] + b[2]) \div Base), (a[2] + b[2]) % Base>>

WNeg(a) == IF a[2] = 0 THEN <<0 - a[1], 0>> ELSE <<0 - a[1] - 1, Base - a[2]>>

WSub(a, b) == WAdd(a, WNeg(b))

\* x * y for machine integers x, y
WMul(x, y) ==
    LET x1 == x \div Base
        x0 == x % Base
        y1 == y \div Base
        y0 == y % Base
    IN  <<x1 * y1 * Base + x1 * y0 + x0 * y1 + ((x0 * y0) \div Base),
          (x0 * y0) % Base>>

\* a * k for a pair a and a machine integer k >= 0
WScale(a, k) == <<a[1] * k + ((a[2] * k) \div Base), (a[2] * k) % Base>>

WLess(a, b) == a[1] < b[1] \/ (a[1] = b[1] /\ a[2] < b[2])

WLeq(a, b) == a = b \/ WLess(a, b)

WMin(a, b) == IF WLess(b, a) THEN b ELSE a

\* 1.0 in energy units: 2 * 10^10 = 2 * 10^6 * Base
EnergyOne == <<2 * 100 * Base, 0>>

----------------------------------------------------------------------------
(* TensegrityGraph (core/graph_model.py) *)

NodeOrder == <<"A", "B", "C">>

Nodes == {NodeOrder[k] : k \in 1..Len(NodeOrder)}

NodeIdx == 1..Len(NodeOrder)

\* networkx keeps the edge {i, j} under both i and j
EdgeKeys(i, j) == {<<i, j>>, <<j, i>>}

EmptyG == [E |-> {}, w |-> [p \in Nodes \X Nodes |-> 0]]

\* nx.Graph.add_edge(i, j, weight=weight): insert, or overwrite the weight
nx_add_edge(G, i, j, weight) ==
    [E |-> G.E \cup EdgeKeys(i, j),
     w |-> [p \in Nodes \X Nodes |-> IF p \in EdgeKeys(i, j) THEN weight ELSE G.w[p]]]

nx_remove_edge(G, i, j) ==
    [E |-> G.E \ EdgeKeys(i, j),
     w |-> [p \in Nodes \X Nodes |-> IF p \in EdgeKeys(i, j) THEN 0 ELSE G.w[p]]]

has_edge(G, i, j) == <<i, j>> \in G.E

neighbors(G, i) == {j \in Nodes : <<i, j>> \in G.E}

RECURSIVE SumOver(_, _)
\* the sum of f over the finite set S
SumOver(f, S) ==
    IF S = {} THEN 0
    ELSE LET x == CHOOSE y \in S : TRUE IN f[x] + SumOver(f, S \ {x})

\* nx.laplacian_matrix(G, weight='weight').toarray(): D - A in node order
laplacian_matrix(G) ==
    [r \in NodeIdx |-> [c \in NodeIdx |->
        IF r = c
        THEN SumOver([j \in Nodes |-> G.w[<<NodeOrder[r], j>>]],
                     neighbors(G, NodeOrder[r]) \ {NodeOrder[r]})
        ELSE IF has_edge(G, NodeOrder[r], NodeOrder[c])
             THEN 0 - G.w[<<NodeOrder[r], NodeOrder[c]>>]
             ELSE 0]]

update_laplacian(g) == [g EXCEPT !.L = laplacian_matrix(g.G)]

RECURSIVE initialize_edges(_, _)
initialize_edges(G, edges) ==
    IF edges = <<>> THEN G
    ELSE initialize_edges(nx_add_edge(G, edges[1][1], edges[1][2], edges[1][3]),
                          Tail(edges))

\* TensegrityGraph.__init__
TensegrityGraph(edges) ==
    update_laplacian([G |-> initialize_edges(EmptyG, edges),
                      L |-> [r \in NodeIdx |-> [c \in NodeIdx |-> 0]]])

add_edge_weighted(g, i, j, weight) ==
    update_laplacian([g EXCEPT !.G = nx_add_edge(g.G, i, j, weight)])

\* a faulty variant: the edge is removed but the cached matrix is left as it was
remove_edge_uncached(g, i, j) ==
    IF has_edge(g.G, i, j)
    THEN [g EXCEPT !.G = nx_remove_edge(g.G, i, j)]
    ELSE g

remove_edge_safe(g, i, j) ==
    IF has_edge(g.G, i, j)
    THEN update_laplacian([g EXCEPT !.G = nx_remove_edge(g.G, i, j)])
    ELSE g

get_neighbors(g, node) == neighbors(g.G, node)

----------------------------------------------------------------------------
(* Energy functions (core/energy.py) *)

RECURSIVE WSumIdx(_, _)
\* f[1] + ... + f[k] for a sequence f of pairs
WSumIdx(f, k) == IF k = 0 THEN WZero ELSE WAdd(WSumIdx(f, k - 1), f[k])

RECURSIVE SumIdx(_, _)
\* f[1] + ... + f[k] for a sequence f of machine integers
SumIdx(f, k) == IF k = 0 THEN 0 ELSE SumIdx(f, k - 1) + f[k]

RECURSIVE WSumSet(_, _)
\* the sum of the pairs f[x], x in S
WSumSet(f, S) ==
    IF S = {} THEN WZero
    ELSE LET x == CHOOSE y \in S : TRUE IN WAdd(f[x], WSumSet(f, S \ {x}))

Lambda1 == 6
Lambda2 == 4

\* a faulty variant: 0.5 * bad.T @ bad, the matrix left out
compute_structural_potential_no_laplacian(L, bad) ==
    WSumIdx([c \in NodeIdx |-> WMul(bad[c], bad[c])], Len(NodeOrder))

\* 0.5 * bad.T @ L @ bad, bad an array in node order
compute_structural_potential(L, bad) ==
    LET badL == [c \in NodeIdx |->
                    SumIdx([r \in NodeIdx |-> bad[r] * L[r][c]], Len(NodeOrder))]
    IN  WSumIdx([c \in NodeIdx |-> WMul(badL[c], bad[c])], Len(NodeOrder))

\* sum over demand.keys() of demand * (l1 * (1 - health) + l2 * complexity)
compute_business_potential(demand, health, complexity) ==
    WSumSet([n \in DOMAIN demand |->
                WMul(demand[n] * (Lambda1 * (100 - health[n]) + Lambda2 * complexity[n]),
                     2 * 10 * Base)],
            DOMAIN demand)

\* 0.5 * sum(delta_bad ** 2), uniform mass
compute_kinetic_energy(bad_curr, bad_prev) ==
    LET delta_bad == [k \in NodeIdx |-> bad_curr[k] - bad_prev[k]]
    IN  WSumIdx([k \in NodeIdx |-> WMul(delta_bad[k], delta_bad[k])], Len(NodeOrder))

\* sum over the neighbours of 0.5 * w * (bad[node] - bad[neighbor]) ** 2
compute_local_dirichlet_energy(G, bad, node) ==
    WSumSet([j \in Nodes |->
                WScale(WMul(bad[node] - bad[j], bad[node] - bad[j]), G.w[<<node, j>>])],
            neighbors(G, node))

\* a faulty variant: the business potential is left out of the total
compute_hamiltonian_no_bus(T, V_struct, V_bus) == WAdd(T, V_struct)

compute_hamiltonian(T, V_struct, V_bus) == WAdd(WAdd(T, V_struct), V_bus)

compute_lagrangian(T, V) == WSub(T, V)

\* scipy.special.expit, in thousandths, of x given in units of 1/10^5; the
\* sigmoid is tabulated every 0.5 and constant in between and beyond +-6
ExpitTable ==
    <<2, 4, 7, 11, 18, 29, 47, 76, 119, 182, 269, 378,
      500,
      622, 731, 818, 881, 924, 953, 971, 982, 989, 993, 996, 998>>

expit(x) ==
    LET k == x \div (5 * Base)
        kk == IF k < 0 - 12 THEN 0 - 12 ELSE IF k > 12 THEN 12 ELSE k
    IN  ExpitTable[kk + 13]

\* max_prob * expit(steepness * (bad_i - threshold)); max_prob in thousandths
incident_probability(bad_i, threshold, steepness, max_prob) ==
    max_prob * expit(steepness * (bad_i - 1000 * threshold))

----------------------------------------------------------------------------
(* SimulationState (core/state.py) *)

EmptyDict == [n \in {} |-> 0]

\* dict.get(key, default)
Get(d, key, default) == IF key \in DOMAIN d THEN d[key] ELSE default

\* SimulationState(graph, health, complexity, demand): the dataclass defaults
SimulationState(graph, health, complexity, demand) ==
    [graph |-> graph, health |-> health, complexity |-> complexity,
     demand |-> demand,
     risk |-> EmptyDict, bad |-> EmptyDict, bad_prev |-> EmptyDict,
     flow |-> EmptyDict, grad_V |-> EmptyDict,
     V_struct |-> WZero, V_bus |-> WZero, V |-> WZero,
     T |-> WZero, H |-> WZero, L |-> WZero,
     E_local |-> EmptyDict, incidents |-> <<>>, time_step |-> 0]

Alpha == 4
Beta == 3
Gamma == 3
AlphaFlow == 6
BetaFlow == 4

\* a faulty variant: complexity and ill health added instead of multiplied
RiskFieldSum(st) ==
    [n \in Nodes |-> 100 * (st.complexity[n] + (100 - st.health[n]))]

\* step 1 of update_derived_fields
RiskField(st) ==
    [n \in Nodes |-> st.complexity[n] * (100 - st.health[n])]

\* a faulty variant: badness from the risk of the previous call
BadFieldStaleRisk(st, risk) ==
    [n \in Nodes |-> 4 * 100 * (100 - st.health[n])
                     + 3 * 100 * st.complexity[n]
                     + 3 * Get(st.risk, n, 0)]

\* step 2: badness from health, complexity and the risk just stored
BadField(st, risk) ==
    [n \in Nodes |-> Alpha * 100 * (100 - st.health[n])
                     + Beta * 100 * st.complexity[n]
                     + Gamma * risk[n]]

\* step 3: the gradient of the badness just stored
GradField(st, bad) ==
    [n \in Nodes |->
        SumOver([j \in Nodes |-> st.graph.G.w[<<n, j>>] * (bad[n] - bad[j])],
                get_neighbors(st.graph, n))]

\* step 4: flow from demand and the gradient just stored
FlowField(st, grad) ==
    [n \in Nodes |-> <<AlphaFlow * st.demand[n], BetaFlow * (0 - grad[n])>>]

update_derived_fields(st) ==
    LET risk == RiskField(st)
        bad == BadField(st, risk)
        grad == GradField(st, bad)
    IN  [st EXCEPT !.risk = risk, !.bad = bad, !.grad_V = grad,
                   !.flow = FlowField(st, grad)]

\* a faulty variant: the kinetic term is computed against zero
BadPrevArrayZero(st) == [k \in NodeIdx |-> 0]

\* the previous badness the kinetic term is computed against
BadPrevArray(st) == [k \in NodeIdx |-> Get(st.bad_prev, NodeOrder[k], 0)]

update_energies(st) ==
    LET bad_array == [k \in NodeIdx |-> st.bad[NodeOrder[k]]]
        V_struct == compute_structural_potential(st.graph.L, bad_array)
        V_bus == compute_business_potential(st.demand, st.health, st.complexity)
        V == WAdd(V_struct, V_bus)
        T == compute_kinetic_energy(bad_array, BadPrevArray(st))
    IN  [st EXCEPT !.V_struct = V_struct, !.V_bus = V_bus, !.V = V, !.T = T,
                   !.H = compute_hamiltonian(T, V_struct, V_bus),
                   !.L = compute_lagrangian(T, V),
                   !.E_local = [n \in Nodes |->
                       compute_local_dirichlet_energy(st.graph.G, st.bad, n)]]

\* a faulty variant: the previous badness is not refreshed
BadSnapshotStale(st) == st.bad_prev

\* what step_forward stores as the previous badness: self.bad.copy()
BadSnapshot(st) == st.bad

step_forward(st) ==
    [st EXCEPT !.bad_prev = BadSnapshot(st), !.time_step = st.time_step + 1]

record_incident(st, node, incident_type, severity) ==
    [st EXCEPT !.incidents = Append(st.incidents,
        [time_step |-> st.time_step, node |-> node, type |-> incident_type,
         severity |-> severity, bad |-> st.bad[node],
         E_local |-> st.E_local[node], health |-> st.health[node],
         complexity |-> st.complexity[node]])]

----------------------------------------------------------------------------
(* Events (events/field_events.py) *)

Min(a, b) == IF a < b THEN a ELSE b
Max(a, b) == IF a > b THEN a ELSE b

FeatureChange(node, magnitude) ==
    [kind |-> "FeatureChange", node |-> node, magnitude |-> magnitude]
Refactor(node, magnitude) ==
    [kind |-> "Refactor", node |-> node, magnitude |-> magnitude]
Patch(node, magnitude) ==
    [kind |-> "Patch", node |-> node, magnitude |-> magnitude]
HealthDecay(node, rate) ==
    [kind |-> "HealthDecay", node |-> node, magnitude |-> rate]

\* complexity = min(1.0, complexity + magnitude)
FeatureComplexity(c, magnitude) == Min(100, c + magnitude)
\* health = max(0.0, health - 0.5 * magnitude)
FeatureHealth(h, magnitude) == Max(0, h - (5 * magnitude) \div 10)

FeatureChange_apply(st, ev) ==
    [st EXCEPT !.complexity[ev.node] = FeatureComplexity(@, ev.magnitude),
               !.health[ev.node] = FeatureHealth(@, ev.magnitude)]

\* complexity = max(0.0, complexity - magnitude); health = min(1.0, health + 0.8 * magnitude)
Refactor_apply(st, ev) ==
    [st EXCEPT !.complexity[ev.node] = Max(0, @ - ev.magnitude),
               !.health[ev.node] = Min(100, @ + (8 * ev.magnitude) \div 10)]

\* a faulty variant: the patch also recomputes the derived fields
Patch_apply_refreshing(st, ev) ==
    update_derived_fields(
        [st EXCEPT !.health[ev.node] = Min(100, @ + ev.magnitude),
                   !.complexity[ev.node] = Min(100, @ + (5 * ev.magnitude) \div 100)])

\* health = min(1.0, health + magnitude); complexity = min(1.0, complexity + 0.05 * magnitude)
Patch_apply(st, ev) ==
    [st EXCEPT !.health[ev.node] = Min(100, @ + ev.magnitude),
               !.complexity[ev.node] = Min(100, @ + (5 * ev.magnitude) \div 100)]

\* a faulty variant: a decay without a node decays nothing
HealthDecay_apply_targeted_only(st, ev) ==
    IF ev.node = "None"
    THEN st
    ELSE [st EXCEPT !.health[ev.node] = Max(0, @ - ev.magnitude)]

\* health = max(0.0, health - rate), at every node when node is None
HealthDecay_apply(st, ev) ==
    IF ev.node = "None"
    THEN [st EXCEPT !.health = [n \in Nodes |-> Max(0, st.health[n] - ev.magnitude)]]
    ELSE [st EXCEPT !.health[ev.node] = Max(0, @ - ev.magnitude)]

\* event.apply(state)
apply(ev, st) ==
    CASE ev.kind = "FeatureChange" -> FeatureChange_apply(st, ev)
      [] ev.kind = "Refactor" -> Refactor_apply(st, ev)
      [] ev.kind = "Patch" -> Patch_apply(st, ev)
      [] ev.kind = "HealthDecay" -> HealthDecay_apply(st, ev)

----------------------------------------------------------------------------
(* The process-wide generator (numpy.random) *)

\* the k-th number np.random.random() returns after np.random.seed(seed),
\* in hundredths: a fixed function of the seed and the position
Stream(seed, k) == ((seed * 37 + 11) * (k * k + 3 * k + 7) + 29 * k) % 100

\* np.random.seed(seed)
np_random_seed(seed) == [seed |-> seed, pos |-> 0]

\* the value np.random.random() returns in generator state g
np_random_value(g) == Stream(g.seed, g.pos)

\* the generator state after n calls of np.random.random()
np_random_advance(g, n) == [g EXCEPT !.pos = g.pos + n]

----------------------------------------------------------------------------
(* Actors (actors/*.py) *)

\* a faulty variant: among equal scores the last node in graph order wins
ArgMaxLast(scores) ==
    LET k == CHOOSE a \in NodeIdx :
                 /\ \A b \in NodeIdx : scores[NodeOrder[b]] <= scores[NodeOrder[a]]
                 /\ \A b \in (a + 1)..Len(NodeOrder) :
                        scores[NodeOrder[b]] < scores[NodeOrder[a]]
    IN  NodeOrder[k]

\* the first node, in graph order, whose score is maximal:
\* max(scores, key=scores.get) over a dict filled in graph order, and
\* sorted(nodes, key=..., reverse=True)[0], which is stable
ArgMaxFirst(scores) ==
    LET k == CHOOSE a \in NodeIdx :
                 /\ \A b \in NodeIdx : scores[NodeOrder[b]] <= scores[NodeOrder[a]]
                 /\ \A b \in 1..(a - 1) : scores[NodeOrder[b]] < scores[NodeOrder[a]]
    IN  NodeOrder[k]

FeatureEngineer(name, business_weight, stability_weight) ==
    [kind |-> "FeatureEngineer", name |-> name,
     business_weight |-> business_weight, stability_weight |-> stability_weight,
     feature_bias |-> 0, use_flow |-> FALSE, action_count |-> 0]

RefactorEngineer(name, business_weight, stability_weight) ==
    [kind |-> "RefactorEngineer", name |-> name,
     business_weight |-> business_weight, stability_weight |-> stability_weight,
     feature_bias |-> 0, use_flow |-> FALSE, action_count |-> 0]

AIAgent(name, feature_bias, use_flow) ==
    [kind |-> "AIAgent", name |-> name,
     business_weight |-> 0, stability_weight |-> 0,
     feature_bias |-> feature_bias, use_flow |-> use_flow, action_count |-> 0]

\* score = business_weight * demand - stability_weight * bad
FeatureEngineer_choose_action(self, st) ==
    FeatureChange(
        ArgMaxFirst([n \in Nodes |-> self.business_weight * st.demand[n] * 1000
                                     - self.stability_weight * st.bad[n]]),
        10)

\* a faulty variant: the badness is worked out from the health and complexity
\* of the moment instead of being read from the state
RefactorEngineer_choose_action_fresh(self, st) ==
    Refactor(
        ArgMaxFirst([n \in Nodes |->
            self.stability_weight * BadField(st, RiskField(st))[n]
            + self.business_weight * st.demand[n] * 1000]),
        15)

\* score = stability_weight * bad + business_weight * demand
RefactorEngineer_choose_action(self, st) ==
    Refactor(
        ArgMaxFirst([n \in Nodes |-> self.stability_weight * st.bad[n]
                                     + self.business_weight * st.demand[n] * 1000]),
        15)

\* np.random.random() < feature_bias * (1 - 0.5 * min(1.0, H / 2.0)),
\* both sides multiplied by 40 * EnergyOne
choose_action_type(self, st, draw) ==
    IF WLess(WScale(EnergyOne, 2 * draw),
             WScale(WSub(WScale(EnergyOne, 4), WMin(WScale(EnergyOne, 2), st.H)),
                    5 * self.feature_bias))
    THEN "feature"
    ELSE "refactor"

select_by_flow(st, action_type) ==
    ArgMaxFirst([n \in Nodes |->
        IF action_type = "feature"
        THEN Get(st.flow, n, <<0, 0>>)[1]
        ELSE Get(st.flow, n, <<0, 0>>)[2]])

select_by_demand(st) == ArgMaxFirst([n \in Nodes |-> st.demand[n]])

select_by_badness(st) == ArgMaxFirst([n \in Nodes |-> st.bad[n]])

AIAgent_choose_action(self, st, draw) ==
    LET action_type == choose_action_type(self, st, draw)
        target_node ==
            IF self.use_flow /\ DOMAIN st.flow # {}
            THEN select_by_flow(st, action_type)
            ELSE IF action_type = "feature"
                 THEN select_by_demand(st)
                 ELSE select_by_badness(st)
    IN  IF action_type = "feature"
        THEN FeatureChange(target_node, 10)
        ELSE Refactor(target_node, 15)

\* the number of draws choose_action takes from the generator
DrawsOf(self) == IF self.kind = "AIAgent" THEN 1 ELSE 0

choose_action(self, st, draw) ==
    CASE self.kind = "FeatureEngineer" -> FeatureEngineer_choose_action(self, st)
      [] self.kind = "RefactorEngineer" -> RefactorEngineer_choose_action(self, st)
      [] self.kind = "AIAgent" -> AIAgent_choose_action(self, st, draw)

\* a faulty variant: the counter is not moved
act_uncounted(self) == self

\* Actor.act: every built-in policy returns an event, so the counter moves
act_count(self) == [self EXCEPT !.action_count = self.action_count + 1]

\* a faulty variant: the actor marks the demand of its target as served
act_serving_demand(self, st, draw) ==
    LET event == choose_action(self, st, draw)
    IN  [event |-> event,
         state |-> [st EXCEPT !.demand[event.node] = 0],
         self |-> act_count(self)]

\* Actor.act as a call: the event it returns, the state it leaves behind
\* (choose_action only reads it) and the actor after the call
act(self, st, draw) ==
    [event |-> choose_action(self, st, draw),
     state |-> st,
     self |-> act_count(self)]

----------------------------------------------------------------------------
(* SimulationHistory and Simulator (simulation.py) *)

Sims == {1, 2}

NoneSeed == 0 - 1

SimulationConfig(n_steps, random_seed, enable_health_decay, enable_incidents, log_interval) ==
    [n_steps |-> n_steps, random_seed |-> random_seed,
     health_decay_rate |-> 1, enable_health_decay |-> enable_health_decay,
     enable_incidents |-> enable_incidents, incident_threshold |-> 60,
     incident_steepness |-> 10, incident_max_prob |-> 1000,
     log_interval |-> log_interval]

\* SimulationConfig(n_steps=n_steps): every other field at its default
DefaultConfig(n_steps) ==
    [SimulationConfig(n_steps, 42, TRUE, TRUE, 1) EXCEPT !.incident_max_prob = 50]

\* the default of run_simulation's n_steps parameter
DefaultNSteps == 100

\* the configuration run_simulation constructs its Simulator with; config is
\* << >> for None and <<c>> for a configuration object c
run_simulation(n_steps, config) ==
    IF config = <<>>
    THEN DefaultConfig(n_steps)
    ELSE [config[1] EXCEPT !.n_steps = n_steps]

\* the configuration run_baseline_experiment ends up running:
\* run_simulation(state=..., actors=..., config=config), n_steps not passed
run_baseline_experiment(n_steps, random_seed) ==
    run_simulation(DefaultNSteps,
        <<[SimulationConfig(n_steps, random_seed, TRUE, TRUE, 1)
              EXCEPT !.incident_max_prob = 50]>>)

SimulationHistory ==
    [steps |-> <<>>, H |-> <<>>, T |-> <<>>, V |-> <<>>, V_struct |-> <<>>,
     V_bus |-> <<>>, L |-> <<>>, events |-> <<>>, incidents |-> <<>>,
     health |-> EmptyDict, complexity |-> EmptyDict, bad |-> EmptyDict,
     E_local |-> EmptyDict]

record_step(h, st) ==
    [h EXCEPT !.steps = Append(@, st.time_step),
              !.H = Append(@, st.H), !.T = Append(@, st.T),
              !.V = Append(@, st.V), !.V_struct = Append(@, st.V_struct),
              !.V_bus = Append(@, st.V_bus), !.L = Append(@, st.L),
              !.health = [n \in Nodes |-> Append(Get(h.health, n, <<>>), st.health[n])],
              !.complexity =
                  [n \in Nodes |-> Append(Get(h.complexity, n, <<>>), st.complexity[n])],
              !.bad = [n \in Nodes |-> Append(Get(h.bad, n, <<>>), st.bad[n])],
              !.E_local =
                  [n \in Nodes |-> Append(Get(h.E_local, n, <<>>),
                                          Get(st.E_local, n, WZero))]]

\* a faulty variant: the event is labelled with the 1-based number of the step
record_event_one_based(h, step, actor, event) ==
    [h EXCEPT !.events = Append(@,
        [step |-> step + 1, actor |-> actor, event_type |-> event.kind,
         node |-> event.node, magnitude |-> event.magnitude])]

record_event(h, step, actor, event) ==
    [h EXCEPT !.events = Append(@,
        [step |-> step, actor |-> actor, event_type |-> event.kind,
         node |-> event.node, magnitude |-> event.magnitude])]

\* a faulty variant: the history does not keep the record
history_drop_incident(h, incident_data) == h

history_record_incident(h, incident_data) ==
    [h EXCEPT !.incidents = Append(@, incident_data)]

RECURSIVE trigger_incidents(_, _, _)
\* the loop of _trigger_incidents from the k-th node on; r = [st, h, g]
trigger_incidents(r, cfg, k) ==
    IF k > Len(NodeOrder) THEN r
    ELSE LET node == NodeOrder[k]
             bad_val == r.st.bad[node]
             prob == incident_probability(bad_val, cfg.incident_threshold,
                                          cfg.incident_steepness, cfg.incident_max_prob)
             hit == np_random_value(r.g) * 100 * 100 < prob
             st1 == IF hit
                    THEN record_incident(r.st, node, "badness_critical", bad_val)
                    ELSE r.st
             h1 == IF hit
                   THEN history_record_incident(r.h, st1.incidents[Len(st1.incidents)])
                   ELSE r.h
         IN  trigger_incidents([st |-> st1, h |-> h1, g |-> np_random_advance(r.g, 1)],
                               cfg, k + 1)

\* a faulty variant: the decay is applied after the energies are computed
PhaseAfterLateDecay(p) ==
    CASE p = "idle" -> "actors"
      [] p = "actors" -> "derive"
      [] p = "derive" -> "energies"
      [] p = "energies" -> "decay"
      [] p = "decay" -> "incidents"
      [] p = "incidents" -> "forward"
      [] p = "forward" -> "snapshot"
      [] p = "snapshot" -> "actors"

\* the order of the phases of one iteration of run(): _step, then the log
PhaseAfter(p) ==
    CASE p = "idle" -> "actors"
      [] p = "actors" -> "decay"
      [] p = "decay" -> "derive"
      [] p = "derive" -> "energies"
      [] p = "energies" -> "incidents"
      [] p = "incidents" -> "forward"
      [] p = "forward" -> "snapshot"
      [] p = "snapshot" -> "actors"

\* the phase a turn of the loop starts in: the actors' turns, if there are actors
LoopHead(s, p) ==
    IF PhaseAfter(p) = "actors" /\ Len(actors[s]) = 0
    THEN PhaseAfter("actors")
    ELSE PhaseAfter(p)

\* nothing else runs while some run() is executing: the engine is single-threaded
Running(s) == sims[s].pc \notin {"new", "idle", "done"}

NoneRunning == \A t \in Sims : ~Running(t)

\* Simulator.__init__
Construct(s) ==
    /\ sims[s].pc = "new"
    /\ NoneRunning
    /\ sims' = [sims EXCEPT ![s].pc = "idle"]
    /\ hist' = [hist EXCEPT ![s] = SimulationHistory]
    /\ rng' = IF sims[s].config.random_seed # NoneSeed
              THEN np_random_seed(sims[s].config.random_seed)
              ELSE rng
    /\ UNCHANGED <<state, actors>>

\* run(), up to the loop: initial fields, energies and snapshot
RunStart(s) ==
    /\ NoneRunning
    /\ LET st == update_energies(update_derived_fields(state[s]))
       IN  /\ state' = [state EXCEPT ![s] = st]
           /\ hist' = [hist EXCEPT ![s] = record_step(hist[s], st)]
    /\ sims' = [sims EXCEPT ![s].step = 0, ![s].ai = 1,
                            ![s].runs = sims[s].runs + 1,
                            ![s].pc = IF sims[s].config.n_steps > 0
                                      THEN LoopHead(s, "idle") ELSE "done"]
    /\ UNCHANGED <<rng, actors>>

\* the first run() call on a constructed Simulator
RunInit(s) ==
    /\ sims[s].pc = "idle"
    /\ RunStart(s)

\* a further run() call on a Simulator whose run() has returned
RunAgain(s) ==
    /\ sims[s].pc = "done"
    /\ sims[s].runs < MaxRuns
    /\ RunStart(s)

\* _step, step 1: one actor acts, its event is applied and logged
ActorTurn(s) ==
    /\ sims[s].pc = "actors"
    /\ sims[s].ai <= Len(actors[s])
    /\ LET self == actors[s][sims[s].ai]
           call == act(self, state[s], np_random_value(rng))
           event == call.event
       IN  /\ actors' = [actors EXCEPT ![s][sims[s].ai] = call.self]
           /\ rng' = np_random_advance(rng, DrawsOf(self))
           /\ state' = [state EXCEPT ![s] = apply(event, call.state)]
           /\ hist' = [hist EXCEPT ![s] =
                          record_event(hist[s], state[s].time_step, self.name, event)]
    /\ sims' = [sims EXCEPT ![s].ai = sims[s].ai + 1,
                            ![s].pc = IF sims[s].ai < Len(actors[s])
                                      THEN "actors" ELSE PhaseAfter("actors")]

\* _step, step 2: the global health decay
DecayPhase(s) ==
    /\ sims[s].pc = "decay"
    /\ state' = [state EXCEPT ![s] =
                    IF sims[s].config.enable_health_decay
                    THEN apply(HealthDecay("None", sims[s].config.health_decay_rate),
                               state[s])
                    ELSE state[s]]
    /\ sims' = [sims EXCEPT ![s].pc = PhaseAfter("decay")]
    /\ UNCHANGED <<rng, hist, actors>>

\* _step, step 3, first half
DerivePhase(s) ==
    /\ sims[s].pc = "derive"
    /\ state' = [state EXCEPT ![s] = update_derived_fields(state[s])]
    /\ sims' = [sims EXCEPT ![s].pc = PhaseAfter("derive")]
    /\ UNCHANGED <<rng, hist, actors>>

\* _step, step 3, second half
EnergiesPhase(s) ==
    /\ sims[s].pc = "energies"
    /\ state' = [state EXCEPT ![s] = update_energies(state[s])]
    /\ sims' = [sims EXCEPT ![s].pc = PhaseAfter("energies")]
    /\ UNCHANGED <<rng, hist, actors>>

\* _step, step 4
IncidentsPhase(s) ==
    /\ sims[s].pc = "incidents"
    /\ LET r == IF sims[s].config.enable_incidents
                THEN trigger_incidents([st |-> state[s], h |-> hist[s], g |-> rng],
                                       sims[s].config, 1)
                ELSE [st |-> state[s], h |-> hist[s], g |-> rng]
       IN  /\ state' = [state EXCEPT ![s] = r.st]
           /\ hist' = [hist EXCEPT ![s] = r.h]
           /\ rng' = r.g
    /\ sims' = [sims EXCEPT ![s].pc = PhaseAfter("incidents")]
    /\ UNCHANGED actors

\* _step, step 5
StepForwardPhase(s) ==
    /\ sims[s].pc = "forward"
    /\ state' = [state EXCEPT ![s] = step_forward(state[s])]
    /\ sims' = [sims EXCEPT ![s].pc = PhaseAfter("forward")]
    /\ UNCHANGED <<rng, hist, actors>>

\* a faulty variant: the log falls on the 0-based step index
LogDueZeroBased(step, log_interval) == step % log_interval = 0

\* (step + 1) % self.config.log_interval == 0
LogDue(step, log_interval) == (step + 1) % log_interval = 0

\* run(): the periodic log, and the loop's next turn or the return
SnapshotPhase(s) ==
    /\ sims[s].pc = "snapshot"
    /\ sims[s].step + 1 < sims[s].config.n_steps => sims[s].step < MaxSteps
    /\ hist' = [hist EXCEPT ![s] =
                   IF LogDue(sims[s].step, sims[s].config.log_interval)
                   THEN record_step(hist[s], state[s])
                   ELSE hist[s]]
    /\ sims' = [sims EXCEPT ![s].step = sims[s].step + 1, ![s].ai = 1,
                            ![s].pc = IF sims[s].step + 1 < sims[s].config.n_steps
                                      THEN LoopHead(s, "snapshot") ELSE "done"]
    /\ UNCHANGED <<rng, state, actors>>

----------------------------------------------------------------------------
(* The graph under its own interface *)

\* weights a caller may pass, positive or not
WeightVals == {0 - 1, 0, 1, 2}

EdgeLists ==
    { <<>>,
      << <<"A", "B", 1>>, <<"A", "C", 1>> >>,
      << <<"A", "B", 1>>, <<"B", "C", 1>>, <<"C", "A", 1>> >>,
      << <<"A", "B", 2>>, <<"B", "C", 0>> >>,
      << <<"A", "B", 1>>, <<"A", "B", 0 - 1>> >> }

GraphInit ==
    /\ \E edges \in EdgeLists : tg = TensegrityGraph(edges)
    /\ tgOps = 0

AddEdgeWeighted ==
    /\ tgOps < MaxGraphOps
    /\ \E i \in Nodes : \E j \in Nodes \ {i} : \E weight \in WeightVals :
           tg' = add_edge_weighted(tg, i, j, weight)
    /\ tgOps' = tgOps + 1

RemoveEdgeSafe ==
    /\ tgOps < MaxGraphOps
    /\ \E i \in Nodes : \E j \in Nodes \ {i} :
           tg' = remove_edge_safe(tg, i, j)
    /\ tgOps' = tgOps + 1

GraphParked == tg = TensegrityGraph(<<>>) /\ tgOps = 0

----------------------------------------------------------------------------
(* Scenarios: the inputs of a run *)

StarEdges == << <<"A", "B", 1>>, <<"A", "C", 1>> >>

SimEdgeLists ==
    { StarEdges,
      << <<"A", "B", 2>>, <<"B", "C", 1>>, <<"C", "A", 1>> >>,
      << <<"A", "B", 1>>, <<"B", "C", 0 - 1>> >> }

Uniform(v) == [n \in Nodes |-> v]

FieldPresets ==
    { [health |-> [A |-> 50, B |-> 3, C |-> 100],
       complexity |-> [A |-> 60, B |-> 95, C |-> 0],
       demand |-> [A |-> 50, B |-> 70, C |-> 0]],
      [health |-> Uniform(80), complexity |-> Uniform(50), demand |-> Uniform(50)] }

ActorLists ==
    { <<FeatureEngineer("Alice", 8, 2), RefactorEngineer("Bob", 2, 8),
        AIAgent("Agent-1", 6, TRUE)>>,
      <<AIAgent("Agent-1", 6, FALSE)>>,
      <<>> }

SeedVals == {1, 2}

\* n_steps a caller may configure, positive or not
StepCounts == (0 - 1)..MaxSteps

Configs ==
    { SimulationConfig(n, seed, decay, inc, li) :
        n \in StepCounts, seed \in {1, NoneSeed}, decay \in BOOLEAN,
        inc \in BOOLEAN, li \in {1, 2} }

\* how a Simulator comes to be: the number of steps the caller asked for and
\* the configuration the Simulator is constructed with
Calls ==
    { [asked |-> c.n_steps, config |-> c] : c \in Configs }
    \cup { [asked |-> n, config |-> run_baseline_experiment(n, 1)] : n \in 1..MaxSteps }
    \cup { [asked |-> n,
            config |-> run_simulation(DefaultNSteps,
                                      <<SimulationConfig(n, 1, FALSE, FALSE, 2)>>)] :
            n \in 1..MaxSteps }
    \cup { [asked |-> n, config |-> run_simulation(n, <<>>)] : n \in 1..MaxSteps }

\* the configuration of the second Simulator: the same, another seed, or
\* incident sampling switched
Variants(c) ==
    { c, [c EXCEPT !.random_seed = 2], [c EXCEPT !.enable_incidents = ~@] }

\* the state of the generator nobody has seeded
EntropySeeds == {3}

SimInit ==
    \E edges \in SimEdgeLists : \E f \in FieldPresets : \E al \in ActorLists :
    \E call \in Calls : \E c2 \in Variants(call.config) : \E e \in EntropySeeds :
        /\ rng = np_random_seed(e)
        /\ sims = [s \in Sims |-> [pc |-> "new", step |-> 0, ai |-> 1, runs |-> 0,
                                   asked |-> call.asked,
                                   config |-> IF s = 1 THEN call.config ELSE c2]]
        /\ state = [s \in Sims |->
                        SimulationState(TensegrityGraph(edges),
                                        f.health, f.complexity, f.demand)]
        /\ hist = [s \in Sims |-> SimulationHistory]
        /\ actors = [s \in Sims |-> al]

SimParked ==
    /\ rng = np_random_seed(3)
    /\ sims = [s \in Sims |-> [pc |-> "new", step |-> 0, ai |-> 1, runs |-> 0, asked |-> 1,
                               config |-> SimulationConfig(1, 1, TRUE, TRUE, 1)]]
    /\ state = [s \in Sims |->
                    SimulationState(TensegrityGraph(<<>>),
                                    Uniform(80), Uniform(50), Uniform(50))]
    /\ hist = [s \in Sims |-> SimulationHistory]
    /\ actors = [s \in Sims |-> <<>>]

----------------------------------------------------------------------------
(* The state under its own interface: events with any magnitude *)

FeatureMagnitudes == {0 - 20, 10, 200}
RefactorMagnitudes == {0 - 20, 15, 200}
PatchMagnitudes == {0 - 20, 20, 200}
DecayRates == {0 - 5, 1, 150}

EventInit ==
    /\ \E f \in FieldPresets :
           es = SimulationState(TensegrityGraph(StarEdges),
                                f.health, f.complexity, f.demand)
    /\ esOps = 0

ApplyFeatureChange ==
    /\ esOps < MaxEventOps
    /\ \E n \in Nodes : \E m \in FeatureMagnitudes :
           es' = apply(FeatureChange(n, m), es)
    /\ esOps' = esOps + 1

ApplyRefactor ==
    /\ esOps < MaxEventOps
    /\ \E n \in Nodes : \E m \in RefactorMagnitudes :
           es' = apply(Refactor(n, m), es)
    /\ esOps' = esOps + 1

ApplyPatch ==
    /\ esOps < MaxEventOps
    /\ \E n \in Nodes : \E m \in PatchMagnitudes :
           es' = apply(Patch(n, m), es)
    /\ esOps' = esOps + 1

ApplyHealthDecay ==
    /\ esOps < MaxEventOps
    /\ \E n \in Nodes \cup {"None"} : \E r \in DecayRates :
           es' = apply(HealthDecay(n, r), es)
    /\ esOps' = esOps + 1

UpdateDerivedFields ==
    /\ esOps < MaxEventOps
    /\ es' = update_derived_fields(es)
    /\ esOps' = esOps + 1

EventParked ==
    /\ es = SimulationState(TensegrityGraph(<<>>), Uniform(80), Uniform(50), Uniform(50))
    /\ esOps = 0

----------------------------------------------------------------------------
(* Task claiming over the bd command (server/beads.py, beads.py) *)

\* the tasks of the workspace, in the order bd ready lists them
TaskOrder == <<"padai-1", "padai-2">>

TaskIds == {TaskOrder[k] : k \in 1..Len(TaskOrder)}

Agents == {"agent-1", "agent-2"}

\* get_ready_tasks: the ids bd ready prints, the open tasks in order
get_ready_tasks(db) == SelectSeq(TaskOrder, LAMBDA t : db[t].status = "open")

\* bd update <id> --status <status>
bd_update_status(db, task_id, status) == [db EXCEPT ![task_id].status = status]

\* bd update <id> --assignee <assignee>
bd_update_assignee(db, task_id, assignee) == [db EXCEPT ![task_id].assignee = assignee]

\* a claim_task call that returns: result is a task id, "None", or
\* "BeadsError" when the error leaves claim_task
Return(call, result) ==
    [call EXCEPT !.pc = "idle", !.result = result,
                 !.got = IF result \in TaskIds THEN @ \cup {result} ELSE @]

\* execute_bd either returns or raises BeadsError (exit status, timeout)
BdOutcomes == {"ok", "BeadsError"}

\* claim_task up to and including get_ready_tasks
ClaimReady(agent_name) ==
    /\ calls[agent_name].pc = "idle"
    /\ calls[agent_name].n < MaxClaims
    /\ \E out \in BdOutcomes :
           LET ready == get_ready_tasks(bd)
               call == [calls[agent_name] EXCEPT !.n = @ + 1, !.before = bd]
           IN  calls' = [calls EXCEPT ![agent_name] =
                   IF out = "BeadsError" THEN Return(call, "BeadsError")
                   ELSE IF Len(ready) = 0 THEN Return(call, "None")
                   ELSE [call EXCEPT !.pc = "update_status", !.task = ready[1]]]
    /\ UNCHANGED bd

\* update_task: bd update --status in_progress; a BeadsError makes update_task
\* return False and claim_task return None
ClaimUpdateStatus(agent_name) ==
    /\ calls[agent_name].pc = "update_status"
    /\ \E out \in BdOutcomes :
           IF out = "ok"
           THEN /\ bd' = bd_update_status(bd, calls[agent_name].task, "in_progress")
                /\ calls' = [calls EXCEPT ![agent_name].pc = "update_assignee"]
           ELSE /\ bd' = bd
                /\ calls' = [calls EXCEPT ![agent_name] = Return(@, "None")]

\* update_task: bd update --assignee agent_name
ClaimUpdateAssignee(agent_name) ==
    /\ calls[agent_name].pc = "update_assignee"
    /\ \E out \in BdOutcomes :
           IF out = "ok"
           THEN /\ bd' = bd_update_assignee(bd, calls[agent_name].task, agent_name)
                /\ calls' = [calls EXCEPT ![agent_name].pc = "details"]
           ELSE /\ bd' = bd
                /\ calls' = [calls EXCEPT ![agent_name] = Return(@, "None")]

\* claim_task after a successful update: get_all_tasks and the return of the
\* task with the claimed id
ClaimDetails(agent_name) ==
    /\ calls[agent_name].pc = "details"
    /\ \E out \in BdOutcomes :
           calls' = [calls EXCEPT ![agent_name] =
               IF out = "ok" THEN Return(@, calls[agent_name].task)
               ELSE Return(@, "BeadsError")]
    /\ UNCHANGED bd

NoCall ==
    [pc |-> "idle", task |-> "None", result |-> "None", n |-> 0, got |-> {},
     before |-> [t \in TaskIds |-> [status |-> "open", assignee |-> "None"]]]

BeadsInit ==
    /\ \E st \in [TaskIds -> {"open", "in_progress", "closed"}] :
           bd = [t \in TaskIds |->
                    [status |-> st[t],
                     assignee |-> IF st[t] = "open" THEN "None" ELSE "agent-0"]]
    /\ calls = [a \in Agents |-> NoCall]

BeadsParked ==
    /\ bd = [t \in TaskIds |-> [status |-> "open", assignee |-> "None"]]
    /\ calls = [a \in Agents |-> NoCall]

----------------------------------------------------------------------------
(* Specifications *)

Init == SimInit /\ GraphParked /\ EventParked /\ BeadsParked

Next ==
    /\ \E s \in Sims :
           \/ Construct(s)
           \/ RunInit(s)
           \/ ActorTurn(s)
           \/ DecayPhase(s)
           \/ DerivePhase(s)
           \/ EnergiesPhase(s)
           \/ IncidentsPhase(s)
           \/ StepForwardPhase(s)
           \/ SnapshotPhase(s)
    /\ UNCHANGED <<graphVars, eventVars, beadsVars>>

Spec == Init /\ [][Next]_vars

\* one Simulator whose run() may be called again after it has returned
RerunInit ==
    /\ SimInit
    /\ sims[2].config = sims[1].config
    /\ GraphParked
    /\ EventParked
    /\ BeadsParked

RerunNext ==
    /\ \/ Construct(1)
       \/ RunInit(1)
       \/ RunAgain(1)
       \/ ActorTurn(1)
       \/ DecayPhase(1)
       \/ DerivePhase(1)
       \/ EnergiesPhase(1)
       \/ IncidentsPhase(1)
       \/ StepForwardPhase(1)
       \/ SnapshotPhase(1)
    /\ UNCHANGED <<graphVars, eventVars, beadsVars>>

RerunSpec == RerunInit /\ [][RerunNext]_vars

GraphSpecInit == GraphInit /\ SimParked /\ EventParked /\ BeadsParked

GraphNext ==
    /\ \/ AddEdgeWeighted
       \/ RemoveEdgeSafe
    /\ UNCHANGED <<simVars, eventVars, beadsVars>>

GraphSpec == GraphSpecInit /\ [][GraphNext]_vars

EventSpecInit == EventInit /\ SimParked /\ GraphParked /\ BeadsParked

EventNext ==
    /\ \/ ApplyFeatureChange
       \/ ApplyRefactor
       \/ ApplyPatch
       \/ ApplyHealthDecay
       \/ UpdateDerivedFields
    /\ UNCHANGED <<simVars, graphVars, beadsVars>>

EventSpec == EventSpecInit /\ [][EventNext]_vars

BeadsSpecInit == BeadsInit /\ SimParked /\ GraphParked /\ EventParked

BeadsNext ==
    /\ \E agent_name \in Agents :
           \/ ClaimReady(agent_name)
           \/ ClaimUpdateStatus(agent_name)
           \/ ClaimUpdateAssignee(agent_name)
           \/ ClaimDetails(agent_name)
    /\ UNCHANGED <<simVars, graphVars, eventVars>>

BeadsSpec == BeadsSpecInit /\ [][BeadsNext]_vars

----------------------------------------------------------------------------
(* Properties *)

Done(s) == sims[s].pc = "done"

PositiveWeights(G) == \A p \in G.E : G.w[p] > 0

UnitFields(st) ==
    \A n \in Nodes : /\ 0 <= st.health[n] /\ st.health[n] <= 100
                     /\ 0 <= st.complexity[n] /\ st.complexity[n] <= 100
                     /\ 0 <= st.demand[n] /\ st.demand[n] <= 100

Last(sq) == sq[Len(sq)]

\* the derived fields, written out from the primitive ones
RefRisk(st, n) == st.complexity[n] * (100 - st.health[n])

RefBad(st, n) ==
    400 * (100 - st.health[n]) + 300 * st.complexity[n]
    + 3 * st.complexity[n] * (100 - st.health[n])

RefGrad(st, n) ==
    SumOver([j \in Nodes |-> st.graph.G.w[<<n, j>>] * (RefBad(st, n) - RefBad(st, j))],
            {j \in Nodes : <<n, j>> \in st.graph.G.E})

\* C1: two runs from equal initial state, actors and configuration with the
\* same non-null seed produce identical histories (H series, event log,
\* incident list), whatever the number of steps.
C1_SameSeedSameHistory ==
    (/\ Done(1) /\ Done(2)
     /\ sims[1].config = sims[2].config
     /\ sims[1].config.random_seed # NoneSeed)
    => hist[1] = hist[2]

\* C2: starting from health and complexity in [0,1], after any sequence of
\* FeatureChange, Refactor, Patch and HealthDecay applications with any
\* magnitude or rate, every node's health and complexity is within [0,1].
C2_FieldsStayInUnitInterval ==
    \A n \in Nodes : /\ 0 <= es.health[n] /\ es.health[n] <= 100
                     /\ 0 <= es.complexity[n] /\ es.complexity[n] <= 100

\* the order of the phases of a step
C3_Order ==
    { <<"new", "idle">>, <<"idle", "actors">>, <<"idle", "decay">>,
      <<"idle", "done">>, <<"actors", "decay">>, <<"decay", "derive">>,
      <<"derive", "energies">>, <<"energies", "incidents">>,
      <<"incidents", "forward">>, <<"forward", "snapshot">>,
      <<"snapshot", "actors">>, <<"snapshot", "decay">>, <<"snapshot", "done">> }

C3_Step(s) ==
    /\ sims[s].pc # sims'[s].pc => <<sims[s].pc, sims'[s].pc>> \in C3_Order
    \* the actors have acted in registration order, each in this step
    /\ (sims[s].pc = "actors" /\ sims'[s].pc = "decay") =>
           LET k == Len(actors[s])
               ev == hist'[s].events
           IN  /\ Len(ev) >= k
               /\ \A a \in 1..k :
                      /\ ev[Len(ev) - k + a].actor = actors[s][a].name
                      /\ ev[Len(ev) - k + a].step = state[s].time_step
    \* the decay falls between the actors and the recomputation
    /\ (sims[s].pc = "decay" /\ sims[s].config.enable_health_decay) =>
           \A n \in Nodes :
               state'[s].health[n] =
                   Max(0, state[s].health[n] - sims[s].config.health_decay_rate)
    \* sampling and snapshot see the badness of this step's events and decay
    /\ sims'[s].pc \in {"incidents", "forward", "snapshot"} =>
           \A n \in Nodes : state'[s].bad[n] = RefBad(state'[s], n)
    /\ (sims[s].pc = "incidents"
        /\ Len(state'[s].incidents) > Len(state[s].incidents)) =>
           \A k \in (Len(state[s].incidents) + 1)..Len(state'[s].incidents) :
               /\ state'[s].incidents[k].severity =
                      RefBad(state[s], state'[s].incidents[k].node)
               /\ state'[s].incidents[k].time_step = sims[s].step
    /\ (sims[s].pc = "snapshot" /\ Len(hist'[s].steps) > Len(hist[s].steps)) =>
           /\ Last(hist'[s].steps) = sims[s].step + 1
           /\ \A n \in Nodes :
                  /\ Last(hist'[s].bad[n]) = RefBad(state[s], n)
                  /\ Last(hist'[s].health[n]) = state[s].health[n]
                  /\ Last(hist'[s].complexity[n]) = state[s].complexity[n]

\* C3: every step of run() performs its phases in the order actors (in
\* registration order), global decay, derived fields, energies, incident
\* sampling, step_forward, snapshot; so the badness sampled for incidents and
\* the values snapshotted reflect that same step's events and decay.
C3_PhaseOrder == [][\A s \in Sims : C3_Step(s)]_vars

\* a second step has applied its events and decay and sampled an incident
C3_Witness ==
    \E s \in Sims :
        /\ sims[s].pc = "forward" /\ sims[s].step = 1
        /\ sims[s].config.enable_health_decay
        /\ Len(hist[s].events) >= 4
        /\ Len(state[s].incidents) >= 1
        /\ Last(state[s].incidents).time_step = 1

\* update_derived_fields has run and no event has been applied since
C4_Recomputed(s) ==
    \/ sims[s].pc \in {"energies", "incidents", "forward", "snapshot", "done"}
    \/ /\ sims[s].pc \in {"actors", "decay"}
       /\ sims[s].step = 0 /\ sims[s].ai = 1 /\ Len(hist[s].steps) = 1

\* C4: after update_derived_fields, risk = complexity*(1-health), bad is
\* alpha*(1-health) + beta*complexity + gamma*risk with this call's risk,
\* grad is the weighted sum over neighbours of bad differences with this
\* call's bad, and flow = (0.6*demand, 0.4*(-grad)).
C4_DerivedFields ==
    \A s \in Sims :
        C4_Recomputed(s) =>
            \A n \in Nodes :
                /\ state[s].risk[n] = RefRisk(state[s], n)
                /\ state[s].bad[n] = RefBad(state[s], n)
                /\ state[s].bad[n] = 400 * (100 - state[s].health[n])
                                     + 300 * state[s].complexity[n]
                                     + 3 * state[s].risk[n]
                /\ state[s].grad_V[n] = RefGrad(state[s], n)
                /\ state[s].flow[n] =
                       <<6 * state[s].demand[n], 4 * (0 - state[s].grad_V[n])>>

\* the fields have been recomputed in a second step, after events moved them
C4_Witness ==
    \E s \in Sims :
        /\ sims[s].pc = "energies" /\ sims[s].step = 1
        /\ Len(hist[s].events) >= 2
        /\ \E n \in Nodes : /\ state[s].bad[n] # state[s].bad_prev[n]
                            /\ state[s].grad_V[n] # 0
                            /\ state[s].risk[n] # 0

C5_Identities(T, V_struct, V_bus, V, H, L) ==
    /\ V = WAdd(V_struct, V_bus)
    /\ H = WAdd(WAdd(T, V_struct), V_bus)
    /\ H = WAdd(T, V)
    /\ L = WSub(T, V)

C5_NonNegative(T, V, H) ==
    /\ WLeq(WZero, T) /\ WLeq(WZero, V) /\ WLeq(WZero, H)

\* C5: after every update_energies, and in every history snapshot,
\* V = V_struct + V_bus, H = T + V_struct + V_bus = T + V and L = T - V; with
\* primitive fields in [0,1] and positive edge weights, T, V and H are >= 0.
C5_EnergyIdentities ==
    \A s \in Sims :
        LET st == state[s]
            h == hist[s]
            ok == UnitFields(st) /\ PositiveWeights(st.graph.G)
        IN  /\ C5_Identities(st.T, st.V_struct, st.V_bus, st.V, st.H, st.L)
            /\ ok => C5_NonNegative(st.T, st.V, st.H)
            /\ \A k \in 1..Len(h.steps) :
                   /\ C5_Identities(h.T[k], h.V_struct[k], h.V_bus[k],
                                    h.V[k], h.H[k], h.L[k])
                   /\ ok => C5_NonNegative(h.T[k], h.V[k], h.H[k])

\* a finished run recorded positive kinetic, structural and business terms
C5_Witness ==
    \E s \in Sims :
        /\ Done(s) /\ PositiveWeights(state[s].graph.G)
        /\ Len(hist[s].steps) >= 2
        /\ WLess(WZero, Last(hist[s].T))
        /\ WLess(WZero, Last(hist[s].V_struct))
        /\ WLess(WZero, Last(hist[s].V_bus))
        /\ WLess(Last(hist[s].L), WZero)

\* C6: the kinetic energy of the initial energy computation of run(), the
\* one recorded in the first snapshot, is 0 for any initial health and
\* complexity.
C6_InitialKineticZero ==
    \A s \in Sims : Len(hist[s].T) >= 1 => hist[s].T[1] = WZero

C7_Step(s) ==
    /\ (sims[s].pc = "forward" /\ sims'[s].pc # "forward") =>
           /\ state'[s].bad_prev = state[s].bad
           /\ state'[s].time_step = state[s].time_step + 1
           /\ [state'[s] EXCEPT !.bad_prev = state[s].bad_prev,
                                !.time_step = state[s].time_step] = state[s]
           /\ UNCHANGED <<hist, actors, rng>>
    \* nothing but step_forward moves bad_prev, a recomputation of bad least of all
    /\ sims[s].pc # "forward" => state'[s].bad_prev = state[s].bad_prev

\* C7: step_forward sets bad_prev to a copy of bad as it was before the call,
\* increments time_step by exactly 1 and changes nothing else; a later
\* recomputation of bad does not alter the captured bad_prev.
C7_StepForwardFrame == [][\A s \in Sims : C7_Step(s)]_vars

\* bad has been recomputed and differs from the bad_prev captured before
C7_Witness ==
    \E s \in Sims :
        /\ sims[s].pc = "energies" /\ state[s].time_step = 1
        /\ sims[s].config.log_interval = 1
        /\ \A n \in Nodes : state[s].bad_prev[n] = Last(hist[s].bad[n])
        /\ \E n \in Nodes : state[s].bad[n] # state[s].bad_prev[n]

\* D - A of the current edge set, entry by entry
RefAdjacency(G, r, c) ==
    IF <<NodeOrder[r], NodeOrder[c]>> \in G.E
    THEN G.w[<<NodeOrder[r], NodeOrder[c]>>] ELSE 0

RefDegree(G, r) == SumIdx([c \in NodeIdx |-> RefAdjacency(G, r, c)], Len(NodeOrder))

\* C8: after construction and after any sequence of add_edge_weighted and
\* remove_edge_safe calls, the cached matrix L equals D - A of the current
\* edge set.
C8_LaplacianCurrent ==
    \A r \in NodeIdx : \A c \in NodeIdx :
        tg.L[r][c] = (IF r = c THEN RefDegree(tg.G, r) ELSE 0) - RefAdjacency(tg.G, r, c)

\* edges have been added, reweighted and removed
C8_Witness ==
    /\ tgOps >= 2
    /\ tg.G.E = EdgeKeys("A", "B")
    /\ tg.G.w[<<"A", "B">>] = 2
    /\ tg.L[1][1] = 2 /\ tg.L[1][2] = 0 - 2 /\ tg.L[3][3] = 0

Vectors == [NodeIdx -> {0 - 1, 0, 1, 2}]

Quadratic(L, x) ==
    SumIdx([r \in NodeIdx |->
               x[r] * SumIdx([c \in NodeIdx |-> L[r][c] * x[c]], Len(NodeOrder))],
           Len(NodeOrder))

RECURSIVE Reach(_, _)
\* the nodes reachable from the set S
Reach(G, S) ==
    LET T == S \cup {j \in Nodes : \E i \in S : <<i, j>> \in G.E}
    IN  IF T = S THEN S ELSE Reach(G, T)

Connected(G) == Reach(G, {NodeOrder[1]}) = Nodes

\* C9: for any graph, after any sequence of edge additions and removals, the
\* Laplacian is symmetric, every row sums to 0 and x^T L x >= 0 for every
\* vector x; for a connected graph the constant vector is in its null space.
C9_LaplacianPSD ==
    /\ \A r \in NodeIdx : \A c \in NodeIdx : tg.L[r][c] = tg.L[c][r]
    /\ \A r \in NodeIdx : SumIdx(tg.L[r], Len(NodeOrder)) = 0
    /\ \A x \in Vectors : Quadratic(tg.L, x) >= 0
    /\ Connected(tg.G) =>
           \A r \in NodeIdx : SumIdx([c \in NodeIdx |-> tg.L[r][c] * 1], Len(NodeOrder)) = 0

\* C10: setting an edge with weight <= 0 fails, so no edge with non-positive
\* weight is ever present in the graph or reflected in the Laplacian.
C10_NoNonPositiveEdge ==
    /\ \A p \in tg.G.E : tg.G.w[p] > 0
    /\ \A r \in NodeIdx : \A c \in NodeIdx : r # c => tg.L[r][c] <= 0

\* C11: a Simulator configured with n_steps <= 0 fails at construction or at
\* the first step; its run() never returns a history.
C11_NonPositiveStepsNeverReturn ==
    \A s \in Sims : sims[s].config.n_steps <= 0 => ~Done(s)

\* C12: no engine operation reads a per-node mapping with a default for a
\* missing key and continues: while bad_prev lacks a node's key, no energy
\* update completes and nothing is recorded from it.
C12_NoDefaultForMissingKey ==
    \A s \in Sims :
        (\E n \in Nodes : n \notin DOMAIN state[s].bad_prev) =>
            /\ Len(hist[s].T) = 0
            /\ state[s].T = WZero

IsPrefix(a, b) == Len(a) <= Len(b) /\ \A i \in 1..Len(a) : a[i] = b[i]

\* [0, k, 2k, ..., k*floor(N/k)]
C13_Expected(N, k) == [i \in 1..((N \div k) + 1) |-> k * (i - 1)]

C13_Series(h) ==
    /\ \A f \in {"H", "T", "V", "V_struct", "V_bus", "L"} : Len(h[f]) = Len(h.steps)
    /\ \A n \in DOMAIN h.bad :
           /\ Len(h.bad[n]) = Len(h.steps) /\ Len(h.health[n]) = Len(h.steps)
           /\ Len(h.complexity[n]) = Len(h.steps) /\ Len(h.E_local[n]) = Len(h.steps)

C13_State(s) ==
    LET N == sims[s].config.n_steps
        k == sims[s].config.log_interval
    IN  N >= 1 =>
            /\ IsPrefix(hist[s].steps, C13_Expected(N, k))
            /\ sims[s].pc \notin {"new", "idle"} => Len(hist[s].steps) >= 1
            /\ Done(s) => hist[s].steps = C13_Expected(N, k)
            /\ C13_Series(hist[s])

C13_Step(s) ==
    /\ IsPrefix(hist[s].steps, hist'[s].steps)
    /\ IsPrefix(hist[s].H, hist'[s].H)
    /\ IsPrefix(hist[s].events, hist'[s].events)
    /\ IsPrefix(hist[s].incidents, hist'[s].incidents)
    /\ \A n \in DOMAIN hist[s].bad : IsPrefix(hist[s].bad[n], hist'[s].bad[n])
    \* a snapshot is taken exactly after a step whose 1-based index is a multiple of k
    /\ (Len(hist'[s].steps) > Len(hist[s].steps) /\ Len(hist[s].steps) >= 1) =>
           /\ Len(hist'[s].steps) = Len(hist[s].steps) + 1
           /\ state[s].time_step % sims[s].config.log_interval = 0
           /\ Last(hist'[s].steps) = state[s].time_step

\* C13: run() on a fresh state with n_steps = N >= 1 and log_interval = k >= 1
\* records one initial snapshot and one snapshot after exactly the steps
\* whose 1-based index is a multiple of k, so history.steps ends as
\* [0, k, ..., k*floor(N/k)]; the history is only ever appended to.
C13_SnapshotSchedule ==
    /\ [](\A s \in Sims : C13_State(s))
    /\ [][\A s \in Sims : C13_Step(s)]_vars

\* a finished run with log_interval 2 that skipped the snapshot of step 1
C13_Witness ==
    \E s \in Sims :
        /\ Done(s) /\ sims[s].config.log_interval = 2
        /\ sims[s].config.n_steps = 2
        /\ hist[s].steps = <<0, 2>>
        /\ state[s].time_step = 2

\* C14: run_baseline_experiment(n_steps=N, random_seed=s) simulates exactly N
\* steps for every N >= 1 (time_step ends at N and, with log_interval 1, the
\* history holds N+1 snapshots), and run_simulation called with a config
\* object simulates the number of steps the caller asked for.
C14_AskedStepsSimulated ==
    \A s \in Sims :
        sims[s].asked >= 1 =>
            /\ state[s].time_step <= sims[s].asked
            /\ Done(s) =>
                   /\ state[s].time_step = sims[s].asked
                   /\ sims[s].config.log_interval = 1 =>
                          Len(hist[s].steps) = sims[s].asked + 1

\* the score the policy of actor self ranks node n by, for an event of type kind
C15_Score(self, st, kind, n) ==
    CASE self.kind = "FeatureEngineer" ->
             self.business_weight * st.demand[n] * 1000 - self.stability_weight * st.bad[n]
      [] self.kind = "RefactorEngineer" ->
             self.stability_weight * st.bad[n] + self.business_weight * st.demand[n] * 1000
      [] self.kind = "AIAgent" /\ self.use_flow /\ DOMAIN st.flow # {} ->
             IF kind = "FeatureChange" THEN st.flow[n][1] ELSE st.flow[n][2]
      [] OTHER ->
             IF kind = "FeatureChange" THEN st.demand[n] ELSE st.bad[n]

C15_Step(s) ==
    (sims[s].pc = "actors" /\ Len(hist'[s].events) = Len(hist[s].events) + 1) =>
        LET self == actors[s][sims[s].ai]
            e == Last(hist'[s].events)
            k == CHOOSE a \in NodeIdx : NodeOrder[a] = e.node
            score(a) == C15_Score(self, state[s], e.event_type, NodeOrder[a])
        IN  /\ e.actor = self.name
            /\ \A b \in DOMAIN NodeOrder : score(b) <= score(k)
            /\ \A b \in 1..(k - 1) : score(b) < score(k)

\* C15: FeatureEngineer, RefactorEngineer and AIAgent (flow-based or with the
\* demand/badness fallback) target a node whose score is maximal over all
\* graph nodes, and among nodes sharing the maximal score the one that comes
\* first in graph insertion order.
C15_ArgMaxFirstInOrder == [][\A s \in Sims : C15_Step(s)]_vars

\* a tie of all three nodes was broken in favour of the first, and elsewhere
\* a later node won on its score
C15_Witness ==
    \E s \in Sims :
        /\ Len(hist[s].events) >= 3
        /\ hist[s].events[1].node = "A"
        /\ \A n \in Nodes : state[s].demand[n] = 50 /\ hist[s].bad[n][1] = hist[s].bad["A"][1]
        /\ \E i \in 1..Len(hist[s].events) : hist[s].events[i].node # "A"

\* what an event may write: health and complexity of one node, or the health
\* of every node
C16_Frame(st, st2) ==
    /\ [st2 EXCEPT !.health = st.health, !.complexity = st.complexity] = st
    /\ \/ \E n \in Nodes : \A m \in Nodes \ {n} :
              /\ st2.health[m] = st.health[m]
              /\ st2.complexity[m] = st.complexity[m]
       \/ st2.complexity = st.complexity

IndexOf(n) == CHOOSE a \in NodeIdx : NodeOrder[a] = n

C17_State(s) ==
    LET inc == state[s].incidents
    IN  /\ hist[s].incidents = inc
        /\ \A i \in 1..Len(inc) :
               /\ inc[i].type = "badness_critical"
               /\ inc[i].severity = inc[i].bad
               /\ inc[i].time_step <= state[s].time_step
        /\ \A i \in 1..Len(inc) : \A j \in (i + 1)..Len(inc) :
               \/ inc[i].time_step < inc[j].time_step
               \/ /\ inc[i].time_step = inc[j].time_step
                  /\ IndexOf(inc[i].node) < IndexOf(inc[j].node)

C17_Step(s) ==
    /\ IsPrefix(state[s].incidents, state'[s].incidents)
    /\ IsPrefix(hist[s].incidents, hist'[s].incidents)
    /\ Len(state'[s].incidents) > Len(state[s].incidents) =>
           /\ sims[s].pc = "incidents" /\ sims[s].config.enable_incidents
           /\ \A k \in (Len(state[s].incidents) + 1)..Len(state'[s].incidents) :
                  LET r == state'[s].incidents[k]
                  IN  /\ r.time_step = sims[s].step
                      /\ r.time_step = state[s].time_step
                      /\ r.severity = state[s].bad[r.node]
                      /\ r.E_local = state[s].E_local[r.node]
                      /\ r.health = state[s].health[r.node]
                      /\ r.complexity = state[s].complexity[r.node]

\* C17: each successful incident draw appends one record (node, current
\* step, type badness_critical, severity = the node's current badness,
\* current E_local, health and complexity) to both state.incidents and
\* history.incidents; the two logs are equal element for element, are
\* append-only, and are ordered by step and within a step by graph node order.
C17_IncidentLogs ==
    /\ [](\A s \in Sims : C17_State(s))
    /\ [][\A s \in Sims : C17_Step(s)]_vars

\* two incidents in one step at different nodes, and one in a later step
C17_Witness ==
    \E s \in Sims :
        LET inc == state[s].incidents
        IN  /\ Len(inc) >= 3
            /\ inc[1].time_step = 0 /\ inc[2].time_step = 0
            /\ inc[1].node # inc[2].node
            /\ Last(inc).time_step = 1
            /\ Len(hist[s].incidents) = Len(inc)

C19_Kinetic(bad, prev) ==
    WSumIdx([k \in NodeIdx |->
                WMul(bad[NodeOrder[k]] - prev[NodeOrder[k]],
                     bad[NodeOrder[k]] - prev[NodeOrder[k]])],
            Len(NodeOrder))

C19_State(s) ==
    (sims[s].pc \in {"incidents", "forward"} /\ sims[s].step >= 1) =>
        /\ DOMAIN state[s].bad_prev = Nodes
        /\ \A n \in Nodes : state[s].bad[n] = RefBad(state[s], n)
        /\ state[s].T = C19_Kinetic(state[s].bad, state[s].bad_prev)
        /\ sims[s].config.log_interval = 1 =>
               \A n \in Nodes : state[s].bad_prev[n] = Last(hist[s].bad[n])

C19_Step(s) ==
    \* step_forward captures the badness this step ended with
    /\ (sims[s].pc = "forward" /\ sims'[s].pc # "forward") =>
           \A n \in Nodes : state'[s].bad_prev[n] = RefBad(state[s], n)
    \* and nothing touches it until the next step's energy update and after
    /\ sims[s].pc # "forward" => state'[s].bad_prev = state[s].bad_prev
    /\ (sims[s].pc = "energies" /\ sims[s].step >= 1) =>
           state'[s].T = C19_Kinetic(state[s].bad, state[s].bad_prev)

\* C19: in every step after the first, for any log_interval, T is computed
\* from the badness just recomputed and the bad_prev captured by step_forward
\* at the end of the preceding step: T = 1/2 * sum (bad_k - bad_{k-1})^2, and
\* bad_prev is not modified between that step_forward and this energy update.
C19_KineticFromPreviousStep ==
    /\ [](\A s \in Sims : C19_State(s))
    /\ [][\A s \in Sims : C19_Step(s)]_vars

\* a second step with log_interval 2, where no snapshot recorded the
\* previous step, has a positive T against a non-zero bad_prev
C19_Witness ==
    \E s \in Sims :
        /\ sims[s].pc = "incidents" /\ sims[s].step = 1
        /\ sims[s].config.log_interval = 2
        /\ WLess(WZero, state[s].T)
        /\ \E n \in Nodes : /\ state[s].bad_prev[n] > 0
                            /\ state[s].bad[n] # state[s].bad_prev[n]

\* the number of draws Simulator s has taken so far in its run: one per
\* AIAgent decision and one per node in every incident sampling
C20_OwnDraws(s) ==
    LET ev == hist[s].events
        ai == {actors[s][a].name : a \in {a \in 1..Len(actors[s]) :
                                              actors[s][a].kind = "AIAgent"}}
        sampled == sims[s].step + (IF sims[s].pc \in {"forward", "snapshot"} THEN 1 ELSE 0)
    IN  Cardinality({k \in 1..Len(ev) : ev[k].actor \in ai})
        + (IF sims[s].config.enable_incidents THEN sampled * Len(NodeOrder) ELSE 0)

\* C20: nothing is shared between Simulator instances: what a seeded
\* Simulator draws during its run, and so the history it produces, depends
\* only on its own seed and its own progress, whatever other Simulators were
\* constructed or run between its construction and the end of its run.
C20_NothingShared ==
    \A s \in Sims :
        (Running(s) /\ sims[s].config.random_seed # NoneSeed) =>
            rng = np_random_advance(np_random_seed(sims[s].config.random_seed),
                                    C20_OwnDraws(s))

\* C21: a Simulator goes through Idle, Running, Completed exactly once: after
\* run() has returned, a further run() call executes no additional steps and
\* neither extends the history nor advances time_step.
C21_CompletedStaysCompleted ==
    [][\A s \in Sims :
          Done(s) => /\ Done(s)'
                     /\ hist'[s] = hist[s]
                     /\ state'[s].time_step = state[s].time_step]_vars

C22_Step(s) ==
    \* the decay phase comes after every actor of the step has acted
    /\ sims'[s].pc = "decay" /\ sims[s].pc # "decay" =>
           Cardinality({k \in 1..Len(hist'[s].events) :
                           hist'[s].events[k].step = state'[s].time_step})
               = Len(actors[s])
    \* and is the only way into the recomputation
    /\ sims'[s].pc = "derive" /\ sims[s].pc # "derive" => sims[s].pc = "decay"
    /\ sims[s].pc = "decay" =>
           /\ sims'[s].pc = "derive"
           /\ hist'[s] = hist[s]
           /\ [state'[s] EXCEPT !.health = state[s].health] = state[s]
           /\ \A n \in Nodes :
                  state'[s].health[n] =
                      IF sims[s].config.enable_health_decay
                      THEN (IF state[s].health[n] - sims[s].config.health_decay_rate < 0
                            THEN 0
                            ELSE state[s].health[n] - sims[s].config.health_decay_rate)
                      ELSE state[s].health[n]
    \* outside the actors' turns and the decay nothing lowers health
    /\ sims[s].pc \notin {"decay", "actors"} => state'[s].health = state[s].health

\* C22: with enable_health_decay every step applies exactly one global
\* HealthDecay, after all actor events and before the derived fields are
\* recomputed, whether or not an actor emitted an event: every node's health
\* drops by health_decay_rate, floored at 0; without it no step decays.
C22_OneDecayPerStep == [][\A s \in Sims : C22_Step(s)]_vars

\* two steps without any actor have each lowered every node's health by the rate
C22_Witness ==
    \E s \in Sims :
        /\ sims[s].pc = "derive" /\ sims[s].step = 1
        /\ sims[s].config.enable_health_decay
        /\ Len(actors[s]) = 0
        /\ \A n \in Nodes :
               state[s].health[n] =
                   hist[s].health[n][1] - 2 * sims[s].config.health_decay_rate

\* the event an actor's turn has just logged
C23_Logged(h) ==
    LET e == h.events[Len(h.events)]
    IN  [kind |-> e.event_type, node |-> e.node, magnitude |-> e.magnitude]

C23_Step(s) ==
    (sims[s].pc = "actors" /\ sims'[s] # sims[s]) =>
        LET a == sims[s].ai
        IN  \* the state after the turn is the event applied to the state
            \* before the turn: the call itself has written nothing
            /\ state'[s] = apply(C23_Logged(hist'[s]), state[s])
            /\ [state'[s] EXCEPT !.health = state[s].health,
                                 !.complexity = state[s].complexity] = state[s]
            /\ state'[s].graph = state[s].graph
            /\ [actors'[s][a] EXCEPT !.action_count = actors[s][a].action_count]
                   = actors[s][a]
            /\ actors'[s][a].action_count = actors[s][a].action_count + 1
            /\ \A b \in 1..Len(actors[s]) : b # a => actors'[s][b] = actors[s][b]

C24_EdgeSum(G, x) ==
    SumOver([p \in Nodes \X Nodes |->
                G.w[p] * (x[IndexOf(p[1])] - x[IndexOf(p[2])])
                       * (x[IndexOf(p[1])] - x[IndexOf(p[2])])],
            G.E)

C24_ConstantOnComponents(G, x) ==
    \A i \in Nodes : \A j \in Reach(G, {i}) : x[IndexOf(i)] = x[IndexOf(j)]

\* C24: for a graph with positive edge weights and any badness vector, the
\* structural potential is one half of the sum over edges of
\* weight * (bad[i] - bad[j])^2; it is 0 when bad is constant on every
\* connected component and strictly positive as soon as two adjacent nodes
\* differ. (The operator's value is in half units: twice the potential.)
C24_DirichletEnergy ==
    PositiveWeights(tg.G) =>
        \A x \in Vectors :
            LET twoV == compute_structural_potential(tg.L, x)
            IN  /\ WAdd(twoV, twoV) = W(C24_EdgeSum(tg.G, x))
                /\ C24_ConstantOnComponents(tg.G, x) => twoV = WZero
                /\ (\E p \in tg.G.E : x[IndexOf(p[1])] # x[IndexOf(p[2])])
                       => WLess(WZero, twoV)

\* a graph of two components after edge operations: a vector that differs
\* between the components has potential 0, one that differs across an edge
\* has not
C24_Witness ==
    /\ tgOps >= 2
    /\ PositiveWeights(tg.G)
    /\ tg.G.E # {}
    /\ ~Connected(tg.G)
    /\ \E x \in Vectors :
           /\ \E r \in NodeIdx : \E c \in NodeIdx : x[r] # x[c]
           /\ compute_structural_potential(tg.L, x) = WZero
    /\ \E x \in Vectors : WLess(WZero, compute_structural_potential(tg.L, x))

\* what the policies read
C25_Read(st) == <<st.bad, st.flow, st.demand, st.H>>

\* the state with the fields the events write blanked out
C25_Blank(st) == [st EXCEPT !.health = Uniform(0), !.complexity = Uniform(0)]

C25_Step(s) ==
    \* bad, flow, demand and H stay as the recomputation left them until the
    \* next recomputation
    /\ sims[s].pc \in {"actors", "decay", "incidents", "forward", "snapshot"}
           => C25_Read(state'[s]) = C25_Read(state[s])
    \* and they alone, with the draw, determine the event of an actor
    /\ (sims[s].pc = "actors" /\ sims'[s] # sims[s]) =>
           C23_Logged(hist'[s]) =
               choose_action(actors[s][sims[s].ai], C25_Blank(state[s]),
                             np_random_value(rng))

\* C25: within one step the target node every actor picks, and the stress H
\* the AIAgent reads, are determined by bad, flow, demand and H as left by the
\* previous recomputation: the event of an earlier actor of the step changes
\* health and complexity but not the choice of a later actor, so the events
\* of a step do not depend on the order in which they are applied.
C25_ActorsReadStaleFields == [][\A s \in Sims : C25_Step(s)]_vars

\* an actor is about to act after an earlier actor of the step has changed the
\* state so much that a recomputation would make it choose another event
C25_Witness ==
    \E s \in Sims :
        /\ sims[s].pc = "actors"
        /\ sims[s].ai >= 2 /\ sims[s].ai <= Len(actors[s])
        /\ \E draw \in {np_random_value(rng)} :
               choose_action(actors[s][sims[s].ai],
                             update_energies(update_derived_fields(state[s])), draw)
                   # choose_action(actors[s][sims[s].ai], state[s], draw)

\* both runs have drawn, and the generator stands where the later of them
\* leaves it when it starts from the head of its seed's stream: neither run
\* was disturbed by the construction or the run of the other
C26_Undisturbed ==
    /\ \A s \in Sims : C20_OwnDraws(s) > 0
    /\ \E s \in Sims :
           rng = np_random_advance(np_random_seed(sims[s].config.random_seed),
                                   C20_OwnDraws(s))

\* C26: incident sampling only observes the dynamics: two undisturbed runs
\* with the same seed, initial state and actor list (an AIAgent included) that
\* differ only in enable_incidents produce the same event log and the same
\* health, complexity and H series.
C26_IncidentsOnlyObserve ==
    (/\ Done(1) /\ Done(2)
     /\ sims[1].config.random_seed # NoneSeed
     /\ sims[2].config = [sims[1].config EXCEPT !.enable_incidents = ~@]
     /\ C26_Undisturbed)
    => /\ hist[1].events = hist[2].events
       /\ hist[1].health = hist[2].health
       /\ hist[1].complexity = hist[2].complexity
       /\ hist[1].H = hist[2].H

\* sims[s].step is k - 1 during the k-th step of the run
C27_Step(s) ==
    /\ Len(hist'[s].events) > Len(hist[s].events) =>
           \A k \in (Len(hist[s].events) + 1)..Len(hist'[s].events) :
               hist'[s].events[k].step = sims[s].step
    /\ Len(hist'[s].incidents) > Len(hist[s].incidents) =>
           \A k \in (Len(hist[s].incidents) + 1)..Len(hist'[s].incidents) :
               hist'[s].incidents[k].time_step = sims[s].step
    /\ (sims[s].pc = "snapshot" /\ Len(hist'[s].steps) > Len(hist[s].steps)) =>
           /\ Len(hist'[s].steps) = Len(hist[s].steps) + 1
           /\ Last(hist'[s].steps) = sims[s].step + 1

\* with log_interval 1 the snapshot labelled t is the (t + 1)-th of the
\* history; the snapshot of the step an incident belongs to is labelled t + 1
C27_State(s) ==
    sims[s].config.log_interval = 1 =>
        /\ \A j \in 1..Len(hist[s].steps) : hist[s].steps[j] = j - 1
        /\ \A i \in 1..Len(hist[s].incidents) :
               LET r == hist[s].incidents[i]
                   j == r.time_step + 2
               IN  j <= Len(hist[s].steps) =>
                       /\ hist[s].steps[j] = r.time_step + 1
                       /\ hist[s].bad[r.node][j] = r.bad
                       /\ hist[s].health[r.node][j] = r.health
                       /\ hist[s].complexity[r.node][j] = r.complexity

\* C27: every event and incident recorded during the k-th step carries the
\* label k - 1 (time_step before step_forward) and the snapshot taken after
\* that step carries k; so, with log_interval 1, the bad, health and
\* complexity stored in an incident labelled t are those of the snapshot
\* labelled t + 1, not of the snapshot labelled t.
C27_StepLabels ==
    /\ [](\A s \in Sims : C27_State(s))
    /\ [][\A s \in Sims : C27_Step(s)]_vars

\* an incident of the second step, labelled 1, whose values are those of the
\* snapshot labelled 2 and differ from those of the snapshot labelled 1
C27_Witness ==
    \E s \in Sims :
        /\ sims[s].config.log_interval = 1
        /\ Len(hist[s].steps) = 3
        /\ \E k \in 1..Len(hist[s].events) : hist[s].events[k].step = 1
        /\ \E i \in 1..Len(hist[s].incidents) :
               LET r == hist[s].incidents[i]
               IN  /\ r.time_step = 1
                   /\ hist[s].health[r.node][3] = r.health
                   /\ hist[s].bad[r.node][3] = r.bad
                   /\ hist[s].health[r.node][2] # r.health
                   /\ hist[s].bad[r.node][2] # r.bad

\* the run started from health, complexity and demand in [0,1]
C28_UnitStart(s) ==
    /\ \A n \in Nodes : 0 <= state[s].demand[n] /\ state[s].demand[n] <= 100
    /\ Len(hist[s].steps) > 0 =>
           \A n \in Nodes : /\ 0 <= hist[s].health[n][1]
                            /\ hist[s].health[n][1] <= 100
                            /\ 0 <= hist[s].complexity[n][1]
                            /\ hist[s].complexity[n][1] <= 100

\* C28: if the initial health, complexity and demand are in [0,1], the edge
\* weights are positive and the weights of badness are the default (0.4, 0.3,
\* 0.3), then whatever built-in actors act, risk and bad of every node are
\* within [0,1] in every snapshot of the history (1.0 is 10^4 for risk and
\* 10^5 for bad).
C28_RiskAndBadInUnitInterval ==
    \A s \in Sims :
        (C28_UnitStart(s) /\ PositiveWeights(state[s].graph.G)) =>
            /\ \A n \in DOMAIN state[s].risk :
                   0 <= state[s].risk[n] /\ state[s].risk[n] <= 100 * 100
            /\ \A n \in DOMAIN state[s].bad :
                   0 <= state[s].bad[n] /\ state[s].bad[n] <= 10 * 100 * 100
            /\ \A n \in DOMAIN hist[s].bad : \A j \in 1..Len(hist[s].bad[n]) :
                   0 <= hist[s].bad[n][j] /\ hist[s].bad[n][j] <= 10 * 100 * 100

\* a run of the three built-in actors from a node with badness above 0.9,
\* which they have changed, and a node with badness 0
C28_Witness ==
    \E s \in Sims :
        /\ PositiveWeights(state[s].graph.G)
        /\ Len(actors[s]) = 3
        /\ Len(hist[s].steps) >= 2
        /\ sims[s].pc = "done"
        /\ \E n \in Nodes : /\ hist[s].bad[n][1] > 9 * 100 * 100
                            /\ Last(hist[s].bad[n]) # hist[s].bad[n][1]
                            /\ state[s].risk[n] > 0
        /\ \E n \in Nodes : hist[s].bad[n][1] = 0

\* C29: no task is handed to two agents: whatever the interleaving of the
\* claim_task calls of distinct agents on one workspace, two calls never both
\* return the same task id.
C29_NoDoubleClaim ==
    \A a \in Agents : \A b \in Agents \ {a} : calls[a].got \cap calls[b].got = {}

\* C30: whenever claim_task returns None, no task's status or assignee has
\* been changed: the tracker is as the call found it, and the first ready
\* task is still ready. (Stated for a call no other agent's call runs beside.)
C30_NoneChangesNothing ==
    [][\A a \in Agents :
          (/\ calls'[a].n = calls[a].n + 1 \/ calls[a].pc # "idle"
           /\ calls'[a].pc = "idle"
           /\ calls'[a].result = "None"
           /\ \A b \in Agents \ {a} : calls[b].n = 0)
          => /\ bd' = calls'[a].before
             /\ get_ready_tasks(bd') = get_ready_tasks(calls'[a].before)]_vars

============================================================================
